---- MODULE Spec2Model ----
(***************************************************************************)
(* A model of phobos/utils/blender.py: helper routines that read and write *)
(* the state of the host application (scene layers, text buffers, objects, *)
(* data blocks, add-on preferences) through the host's scripting API.      *)
(*                                                                         *)
(* The state is the part of the host's object graph the helpers touch.     *)
(* Every helper is one action; its result, its arguments and the state it  *)
(* was called in are kept in `call`, so that properties of the form "after *)
(* f(x) ..." are state predicates.  Python's None is the string "None";    *)
(* a Python bool passed where None is also allowed is "True" or "False".   *)
(***************************************************************************)
EXTENDS Integers, Sequences, FiniteSets, TLC

VARIABLES
    layers,        \* bpy.context.scene.layers: 20 booleans
    configfolder,  \* bpy.context.user_preferences.addons["phobos"].preferences.configfolder
    texts,         \* bpy.data.texts: set of [id, name, lines, tag]
    objects,       \* bpy.data.objects: set of object records
    active,        \* bpy.context.object / scene.objects.active: {id}, or {} for None
    meshes,        \* bpy.data.meshes
    materials,     \* bpy.data.materials
    lamps,         \* bpy.data.lamps
    pc,            \* where createPreview stands: "idle" or "render"
    call           \* the last call: its name, arguments, pre-state and result

vars == <<layers, configfolder, texts, objects, active, meshes, materials, lamps, pc, call>>

None == "None"

NoCall == [op |-> "none"]

(***************************************************************************)
(* Layers                                                                  *)
(***************************************************************************)

\* the host's scenes have 20 layers; defLayers builds lists of that length
NumLayers == 20

LayerRange == 0 .. (NumLayers - 1)

\* largest layer index the calls of the model pass
MaxLayerIndex == 3

LayerIndices == 0 .. MaxLayerIndex

\* a fresh scene shows layer 0 only
DefaultLayers == [i \in LayerRange |-> i = 0]

\* Python truthiness of an optional bool
Truthy(value) == value = "True"

PyBool(value) == value = "True"

\* toggleLayer's effect on scene.layers
toggleLayerLayers(ls, index, value) ==
    IF Truthy(value)
    THEN [ls EXCEPT ![index] = PyBool(value)]
    ELSE [ls EXCEPT ![index] = ~ ls[index]]

toggleLayer(index, value) ==
    /\ pc = "idle"
    /\ layers' = toggleLayerLayers(layers, index, value)
    /\ call' = [op |-> "toggleLayer", index |-> index, value |-> value, pre |-> layers]
    /\ UNCHANGED <<configfolder, texts, objects, active, meshes, materials, lamps, pc>>

\* longest list passed to defLayers
MaxListLen == 2

\* list elements tried: every layer index, one below (Python counts -1 from the
\* end) and one above (out of range)
ListElems == -1 .. NumLayers

SeqsUpTo(S, n) == UNION { [1..k -> S] : k \in 0..n }

\* a Python argument that is either a list of ints or a bare int
DefLayersArgs ==
    { [kind |-> "list", val |-> s] : s \in SeqsUpTo(ListElems, MaxListLen) }
    \cup { [kind |-> "int", val |-> i] : i \in ListElems }

\* Python list indexing of a list of length n: negative indices count from the end
PyIndex(i, n) == IF i < 0 THEN i + n ELSE i

PyIndexOk(i, n) == -n <= i /\ i < n

\* the loop of defLayers over layerlist[k..], on the list built so far
RECURSIVE defLayersLoop(_, _, _)
defLayersLoop(layerlist, k, acc) ==
    IF k > Len(layerlist) THEN [raised |-> None, value |-> acc]
    ELSE IF ~ PyIndexOk(layerlist[k], NumLayers)
         THEN [raised |-> "IndexError", value |-> None]
         ELSE defLayersLoop(layerlist, k + 1,
                            [acc EXCEPT ![PyIndex(layerlist[k], NumLayers)] = TRUE])

\* defLayers taking layer numbers as counted from one
defLayersOneBased(arg) ==
    LET layerlist == IF arg.kind # "list" THEN <<arg.val>> ELSE arg.val
    IN  defLayersLoop([k \in 1 .. Len(layerlist) |-> layerlist[k] - 1], 1,
                      [i \in LayerRange |-> FALSE])

defLayers(arg) ==
    LET layerlist == IF arg.kind # "list" THEN <<arg.val>> ELSE arg.val
    IN  defLayersLoop(layerlist, 1, [i \in LayerRange |-> FALSE])

\* a call of defLayers on the argument drawn at the start
defLayersCall ==
    /\ pc = "idle"
    /\ call.op = "pending_defLayers"
    /\ call' = [op |-> "defLayers", arg |-> call.arg, ret |-> defLayers(call.arg),
                argAfter |-> call.arg]
    /\ UNCHANGED <<layers, configfolder, texts, objects, active, meshes, materials, lamps, pc>>

(***************************************************************************)
(* Add-on preferences                                                      *)
(***************************************************************************)

\* longest path tried, in characters
MaxPathLen == 4

PathChars == {"/", "a", "b"}

Paths == SeqsUpTo(PathChars, MaxPathLen)

EmptyString == << >>

\* phobos.phobossystem.getConfigPath(): the packaged default folder
getConfigPath == <<"/", "a">>

\* getPhobosConfigPath without the test for the empty string
getPhobosConfigPathNoFallback(folder) ==
    [ret |-> folder, calledGetConfigPath |-> FALSE]

getPhobosConfigPathResult(folder) ==
    IF folder # EmptyString
    THEN [ret |-> folder, calledGetConfigPath |-> FALSE]
    ELSE [ret |-> getConfigPath, calledGetConfigPath |-> TRUE]

getPhobosConfigPath ==
    /\ pc = "idle"
    /\ call' = [op |-> "getPhobosConfigPath", pre |-> configfolder,
                res |-> getPhobosConfigPathResult(configfolder)]
    /\ UNCHANGED <<layers, configfolder, texts, objects, active, meshes, materials, lamps, pc>>

(***************************************************************************)
(* Text buffers.  A buffer is [id, name, lines, tag]: id is the identity   *)
(* of the host's data block (the lowest number no live buffer has); a name *)
(* is <<base, n>>, standing for base when n = 0 and for base.00n           *)
(* otherwise, which is how the host makes names unique.  A string is a     *)
(* sequence of characters.                                                 *)
(* The buffers of the model are created and written by the helpers only,   *)
(* so a buffer's cursor is at its end and write() appends.                 *)
(***************************************************************************)

\* most text buffers held at once
MaxTexts == 2

\* longest content passed to a call, in characters
MaxContentLen == 1

NEWLINE == "\n"

TextChars == {"x", NEWLINE}

Contents == SeqsUpTo(TextChars, MaxContentLen)

\* the names the calls pass
TextNames == {<<"a", 0>>, <<"Text", 0>>}

NamesOf(ts) == { t.name : t \in ts }

\* the host's unique-name rule: keep the name if free, else the lowest free number
UniqueName(name, used) ==
    IF name \notin used THEN name
    ELSE <<name[1], CHOOSE k \in 1 .. (Cardinality(used) + 1) :
                        /\ <<name[1], k>> \notin used
                        /\ \A j \in 1 .. (k - 1) : <<name[1], j>> \in used>>

\* the identity of a new data block
FreshId(used) == CHOOSE k \in 0 .. Cardinality(used) :
                     k \notin used /\ \A j \in 0 .. (k - 1) : j \in used

\* bpy.ops.text.new(): one more buffer, named Text (made unique), one empty line
textNew(ts) ==
    ts \cup { [id |-> FreshId({ t.id : t \in ts }),
               name |-> UniqueName(<<"Text", 0>>, NamesOf(ts)),
               lines |-> << << >> >>, tag |-> FALSE] }

\* Text.write(s) from character k on: a newline opens a line, any other
\* character goes to the end of the last line
RECURSIVE textWrite(_, _, _)
textWrite(lines, s, k) ==
    IF k > Len(s) THEN lines
    ELSE IF s[k] = NEWLINE
         THEN textWrite(Append(lines, << >>), s, k + 1)
         ELSE textWrite([lines EXCEPT ![Len(lines)] = Append(@, s[k])], s, k + 1)

\* "\n".join(l.body for l in lines)
RECURSIVE joinLines(_)
joinLines(lines) ==
    IF Len(lines) = 0 THEN << >>
    ELSE IF Len(lines) = 1 THEN lines[1]
    ELSE lines[1] \o <<NEWLINE>> \o joinLines(Tail(lines))

BodyLen(t) == Len(joinLines(t.lines))

\* newtext.name = textfilename.  When another buffer holds the name, the host
\* gives the lowest free number to one of the two; which one depends on the
\* host version and on the order of its list, so both outcomes are kept.
renameText(ts, newtext, textfilename) ==
    LET others == ts \ {newtext}
        renamed == [newtext EXCEPT !.name = textfilename]
    IN  IF textfilename \notin NamesOf(others)
        THEN { others \cup {renamed} }
        ELSE LET old == CHOOSE t \in others : t.name = textfilename
             IN  { others \cup
                     { [newtext EXCEPT !.name = UniqueName(textfilename, NamesOf(others))] },
                   (others \ {old}) \cup
                     { renamed,
                       [old EXCEPT !.name =
                           UniqueName(textfilename, NamesOf(others \ {old}) \cup {textfilename})] } }

\* bpy.data.texts[textfilename].write(contents)
writeByName(ts, textfilename, contents) ==
    LET t == CHOOSE x \in ts : x.name = textfilename
    IN  (ts \ {t}) \cup { [t EXCEPT !.lines = textWrite(t.lines, contents, 1)] }

\* createNewTextfile: the sets of buffers it can leave
createNewTextfileTexts(ts, textfilename, contents) ==
    LET tagged   == { [t EXCEPT !.tag = TRUE] : t \in ts }
        withNew  == textNew(tagged)
        newtext  == CHOOSE t \in withNew : ~ t.tag
        untagged == { [t EXCEPT !.tag = FALSE] : t \in withNew }
        new      == [newtext EXCEPT !.tag = FALSE]
    IN  { writeByName(r, textfilename, contents) :
              r \in renameText(untagged, new, textfilename) }

\* updateTextFile without the removal of the old buffer
updateTextFileNoRemove(ts, textfilename, newContent) ==
    createNewTextfileTexts(ts, textfilename, newContent)

\* updateTextFile: remove the buffer of that name if there is one, then create
updateTextFileTexts(ts, textfilename, newContent) ==
    LET removed == IF textfilename \in NamesOf(ts)
                   THEN ts \ { CHOOSE t \in ts : t.name = textfilename }
                   ELSE ts
    IN  createNewTextfileTexts(removed, textfilename, newContent)

\* readTextFile without the except clause
readTextFileNoCatch(ts, textfilename) ==
    IF textfilename \in NamesOf(ts)
    THEN [ret |-> joinLines((CHOOSE t \in ts : t.name = textfilename).lines),
          log |-> << >>, raised |-> None]
    ELSE [ret |-> None, log |-> << >>, raised |-> "KeyError"]

\* readTextFile: the value returned and the levels logged
readTextFileResult(ts, textfilename) ==
    IF textfilename \in NamesOf(ts)
    THEN [ret |-> joinLines((CHOOSE t \in ts : t.name = textfilename).lines),
          log |-> << >>, raised |-> None]
    ELSE [ret |-> << >>, log |-> <<"ERROR">>, raised |-> None]

\* the model stops a buffer from growing past the longest content
WithinTextBounds(ts) ==
    /\ Cardinality(ts) <= MaxTexts
    /\ \A t \in ts : BodyLen(t) <= MaxContentLen

createNewTextfile(textfilename, contents) ==
    /\ pc = "idle"
    /\ \E ts \in createNewTextfileTexts(texts, textfilename, contents) :
          /\ WithinTextBounds(ts)
          /\ texts' = ts
    /\ call' = [op |-> "createNewTextfile", name |-> textfilename,
                contents |-> contents, pre |-> texts]
    /\ UNCHANGED <<layers, configfolder, objects, active, meshes, materials, lamps, pc>>

updateTextFile(textfilename, newContent) ==
    /\ pc = "idle"
    /\ \E ts \in updateTextFileTexts(texts, textfilename, newContent) :
          /\ WithinTextBounds(ts)
          /\ texts' = ts
    /\ call' = [op |-> "updateTextFile", name |-> textfilename,
                contents |-> newContent, pre |-> texts]
    /\ UNCHANGED <<layers, configfolder, objects, active, meshes, materials, lamps, pc>>

readTextFile(textfilename) ==
    /\ pc = "idle"
    /\ call' = [op |-> "readTextFile", name |-> textfilename, pre |-> texts,
                res |-> readTextFileResult(texts, textfilename)]
    /\ UNCHANGED <<layers, configfolder, texts, objects, active, meshes, materials, lamps, pc>>

(***************************************************************************)
(* Objects and data blocks.  An object is [id, name, type, hide,           *)
(* hide_render, select, layers, phobostype, material]; layers is the set   *)
(* of layer indices the object is on.  Sizes, locations, rotations and     *)
(* render settings are not part of the model.                              *)
(***************************************************************************)

\* a reference to an object is {id}; Python's None is the empty reference
NoObject == {}

\* most objects held at once
MaxObjects == 2

PrimitiveTypes == {"box", "sphere", "cylinder", "cone", "disc"}

\* the name the host gives the object a primitive operator adds
PrimitiveName(ptype) ==
    CASE ptype = "box" -> <<"Cube", 0>>
      [] ptype = "sphere" -> <<"Sphere", 0>>
      [] ptype = "cylinder" -> <<"Cylinder", 0>>
      [] ptype = "cone" -> <<"Cone", 0>>
      [] ptype = "disc" -> <<"Circle", 0>>

\* an object as a host operator adds it: shown, selected, nothing else selected
addObject(obs, name, type, onLayers) ==
    { [o EXCEPT !.select = FALSE] : o \in obs }
    \cup { [id |-> FreshId({ o.id : o \in obs }),
            name |-> UniqueName(name, NamesOf(obs)),
            type |-> type, hide |-> FALSE, hide_render |-> FALSE, select |-> TRUE,
            layers |-> onLayers, phobostype |-> "undefined", material |-> None] }

\* the object an add operator has just added to obs
addedObject(obs) == {FreshId({ o.id : o \in obs })}

\* what the host's operators act on: shown objects on a visible scene layer
Visible(o, ls) == ~ o.hide /\ \E l \in o.layers : ls[l]

\* bpy.ops.object.select_all(action="SELECT") / (action="DESELECT")
selectAll(obs, ls, value) ==
    { IF Visible(o, ls) THEN [o EXCEPT !.select = value] ELSE o : o \in obs }

\* bpy.ops.object.delete(): the selected objects the operators act on go
objectDelete(obs, ls) == { o \in obs : ~ (o.select /\ Visible(o, ls)) }

\* phobos.utils.naming.safelyName(obj, name, phobostype)
safelyName(obs, obj, name) ==
    { IF o.id \in obj
      THEN [o EXCEPT !.name = UniqueName(name, NamesOf({ x \in obs : x.id \notin obj }))]
      ELSE o : o \in obs }

\* phobos.model.materials.assignMaterial(obj, material)
assignMaterial(obs, obj, material) ==
    { IF o.id \in obj THEN [o EXCEPT !.material = material] ELSE o : o \in obs }

\* createPrimitive: the state it leaves and what it returns.  With a ptype that
\* is none of the five no operator runs and obj is the object that was active.
createPrimitiveResult(obs, act, ls, ms, mats, pname, ptype, player, pmaterial, phobostype) ==
    LET n_layer  == player
        players  == defLayers([kind |-> "list", val |-> <<n_layer>>]).value
        ls1      == [ls EXCEPT ![n_layer] = TRUE]
        isPrim   == ptype \in PrimitiveTypes
        obs1     == IF isPrim
                    THEN addObject(obs, PrimitiveName(ptype), "MESH",
                                   { l \in LayerRange : players[l] })
                    ELSE obs
        ms1      == IF isPrim
                    THEN ms \cup {UniqueName(PrimitiveName(ptype), ms)}
                    ELSE ms
        obj      == IF isPrim THEN addedObject(obs) ELSE act
        obs2     == IF phobostype # None
                    THEN { IF o.id \in obj THEN [o EXCEPT !.phobostype = phobostype] ELSE o :
                             o \in obs1 }
                    ELSE obs1
        obs3     == safelyName(obs2, obj, pname)
        obs4     == IF pmaterial # None THEN assignMaterial(obs3, obj, pmaterial) ELSE obs3
        mats1    == IF pmaterial # None THEN mats \cup {pmaterial} ELSE mats
    IN  IF obj = NoObject
        THEN [objects |-> obs1, active |-> act, layers |-> ls1, meshes |-> ms1,
              materials |-> mats, ret |-> NoObject, raised |-> "AttributeError"]
        ELSE [objects |-> obs4, active |-> obj, layers |-> ls1, meshes |-> ms1,
              materials |-> mats1, ret |-> obj, raised |-> None]

createPrimitive(pname, ptype, player, pmaterial, phobostype) ==
    /\ pc = "idle"
    /\ Cardinality(objects) < MaxObjects
    /\ LET r == createPrimitiveResult(objects, active, layers, meshes, materials,
                                      pname, ptype, player, pmaterial, phobostype)
       IN  /\ objects' = r.objects
           /\ active' = r.active
           /\ layers' = r.layers
           /\ meshes' = r.meshes
           /\ materials' = r.materials
           /\ call' = [op |-> "createPrimitive", pname |-> pname, ptype |-> ptype,
                       player |-> player, pmaterial |-> pmaterial,
                       phobostype |-> phobostype, pre |-> objects,
                       ret |-> r.ret, raised |-> r.raised]
    /\ UNCHANGED <<configfolder, texts, lamps, pc>>

\* cleanScene: select what the operator can select, delete it, drop the data
cleanSceneObjects(obs, ls) == objectDelete(selectAll(obs, ls, TRUE), ls)

cleanScene ==
    /\ pc = "idle"
    /\ objects' = cleanSceneObjects(objects, layers)
    /\ active' = active \cap { o.id : o \in objects' }
    /\ meshes' = {}
    /\ materials' = {}
    /\ lamps' = {}
    /\ call' = [op |-> "cleanScene", pre |-> objects]
    /\ UNCHANGED <<layers, configfolder, texts, pc>>

\* phobos.utils.selection.selectObjects(objects, True, 0): deselect, then
\* select the given objects
selectObjects(obs, ls, ids) ==
    { IF o.id \in ids THEN [o EXCEPT !.select = TRUE] ELSE o :
        o \in selectAll(obs, ls, FALSE) }

\* the layer the host puts a new camera or lamp on: the scene's active layer
activeLayer(ls) ==
    IF \E l \in LayerRange : ls[l]
    THEN CHOOSE l \in LayerRange : ls[l] /\ \A j \in 0 .. (l - 1) : ~ ls[j]
    ELSE 0

\* createPreview, first loop: hide everything that is not supposed to show
hideOthers(obs, objs) ==
    { IF o.id \notin objs THEN [o EXCEPT !.hide_render = TRUE, !.hide = TRUE] ELSE o :
        o \in obs }

\* the last loop resetting hide_render only
showAllRenderOnly(obs) == { [o EXCEPT !.hide_render = FALSE] : o \in obs }

\* createPreview, last loop: make all objects visible again
showAll(obs) == { [o EXCEPT !.hide_render = FALSE, !.hide = FALSE] : o \in obs }

\* createPreview up to the render: the objects as the renderer sees them, with
\* the camera and the sun the non-opengl path adds
previewSetup(obs, ls, objs, opengl) ==
    LET hidden   == hideOthers(obs, objs)
        withCam  == addObject(hidden, <<"Camera", 0>>, "CAMERA", {activeLayer(ls)})
        cam      == addedObject(hidden)
        selected == selectObjects(withCam, ls, objs)
        withSun  == addObject(selected, <<"Sun", 0>>, "LAMP", {activeLayer(ls)})
        light    == addedObject(selected)
    IN  IF opengl
        THEN [objects |-> hidden, cam |-> NoObject, light |-> NoObject]
        ELSE [objects |-> withSun, cam |-> cam, light |-> light]

\* createPreview after the render: delete camera and sun, show everything
previewFinish(obs, ls, opengl, cam, light) ==
    LET deleted == IF opengl THEN obs
                   ELSE objectDelete(selectObjects(obs, ls, cam \cup light), ls)
    IN  showAll(deleted)

\* most lamp data blocks held at once: each non-opengl preview leaves the data
\* block of its sun behind
MaxLamps == 1

\* createPreview(objects, ...) until the renderer runs
createPreviewRender(objs, opengl) ==
    /\ pc = "idle"
    /\ opengl \/ Cardinality(lamps) < MaxLamps
    /\ LET r == previewSetup(objects, layers, objs, opengl)
       IN  /\ objects' = r.objects
           /\ active' = IF opengl THEN active ELSE r.light
           /\ lamps' = IF opengl THEN lamps ELSE lamps \cup {UniqueName(<<"Sun", 0>>, lamps)}
           /\ call' = [op |-> "createPreview", objs |-> objs, opengl |-> opengl,
                       pre |-> objects, cam |-> r.cam, light |-> r.light]
    /\ pc' = "render"
    /\ UNCHANGED <<layers, configfolder, texts, meshes, materials>>

\* createPreview from the end of the render to its return
createPreviewReturn ==
    /\ pc = "render"
    /\ objects' = previewFinish(objects, layers, call.opengl, call.cam, call.light)
    /\ active' = active \cap { o.id : o \in objects' }
    /\ pc' = "idle"
    /\ UNCHANGED <<layers, configfolder, texts, meshes, materials, lamps, call>>

(***************************************************************************)
(* Specifications.  The helpers are sequential calls into the host, so     *)
(* each specification starts from a state the host can be in and runs the  *)
(* helpers of one area.                                                    *)
(***************************************************************************)

InitRest(names) ==
    /\ "layers" \in names \/ layers = DefaultLayers
    /\ "configfolder" \in names \/ configfolder = EmptyString
    /\ "texts" \in names \/ texts = {}
    /\ "objects" \in names \/ (objects = {} /\ active = NoObject)
    /\ "data" \in names \/ (meshes = {} /\ materials = {} /\ lamps = {})
    /\ pc = "idle"
    /\ "call" \in names \/ call = NoCall

\* toggleLayer on a fresh scene
InitLayers == InitRest({})

NextLayers == \E index \in LayerIndices, value \in {"True", "False", None} :
                  toggleLayer(index, value)

SpecLayers == InitLayers /\ [][NextLayers]_vars

\* defLayers is a pure function: the argument is drawn at the start
InitDefLayers ==
    /\ call \in { [op |-> "pending_defLayers", arg |-> a] : a \in DefLayersArgs }
    /\ InitRest({"call"})

NextDefLayers == defLayersCall

SpecDefLayers == InitDefLayers /\ [][NextDefLayers]_vars

\* getPhobosConfigPath under any preference value
InitConfig ==
    /\ configfolder \in Paths
    /\ InitRest({"configfolder"})

NextConfig == getPhobosConfigPath

SpecConfig == InitConfig /\ [][NextConfig]_vars

\* the text-buffer helpers, from a file with no text buffers
InitTexts == InitRest({})

NextTexts ==
    \E textfilename \in TextNames :
        \/ \E contents \in Contents : createNewTextfile(textfilename, contents)
        \/ \E contents \in Contents : updateTextFile(textfilename, contents)
        \/ readTextFile(textfilename)

SpecTexts == InitTexts /\ [][NextTexts]_vars

\* createPrimitive, from an empty scene
InitPrimitive == InitRest({})

NextPrimitive ==
    \E ptype \in PrimitiveTypes \cup {"torus"}, player \in {0, MaxLayerIndex},
       pmaterial \in {None, "mat"}, phobostype \in {None, "visual"} :
        createPrimitive(<<"prim", 0>>, ptype, player, pmaterial, phobostype)

SpecPrimitive == InitPrimitive /\ [][NextPrimitive]_vars

\* the objects a blend file can hold: any number up to the bound, each in any
\* selection, visibility and layer state
ObjectSets ==
    UNION { { { [id |-> k, name |-> <<"Empty", k>>, type |-> "EMPTY", hide |-> f[k].hide,
                 hide_render |-> f[k].hide_render, select |-> f[k].select,
                 layers |-> {f[k].layer}, phobostype |-> "undefined",
                 material |-> None] : k \in 0 .. (n - 1) } :
              f \in [0 .. (n - 1) -> [hide : BOOLEAN, hide_render : BOOLEAN,
                                      select : BOOLEAN, layer : {0, 1}]] } :
            n \in 0 .. MaxObjects }

\* cleanScene on any blend file
InitClean ==
    /\ objects \in ObjectSets
    /\ active = NoObject
    /\ meshes \in SUBSET {<<"Cube", 0>>}
    /\ materials \in SUBSET {"mat"}
    /\ lamps \in SUBSET {<<"Lamp", 0>>}
    /\ InitRest({"objects", "data"})

NextClean == cleanScene

SpecClean == InitClean /\ [][NextClean]_vars

\* createPreview on any set of objects, in a file with no lamp data yet
InitPreview ==
    /\ objects \in ObjectSets
    /\ active = NoObject
    /\ meshes = {}
    /\ materials = {}
    /\ lamps = {}
    /\ InitRest({"objects", "data"})

NextPreview ==
    \/ \E objs \in SUBSET { o.id : o \in objects }, opengl \in BOOLEAN :
           createPreviewRender(objs, opengl)
    \/ createPreviewReturn

SpecPreview == InitPreview /\ [][NextPreview]_vars

(***************************************************************************)
(* Claims                                                                  *)
(***************************************************************************)

\* C1: toggleLayer(index, value) sets layer index to value whenever value is a
\* boolean, inverts it only when value is None, and changes no other layer.
C1_ToggleLayerSetsValue ==
    call.op = "toggleLayer" =>
        /\ call.value \in {"True", "False"} => layers[call.index] = PyBool(call.value)
        /\ call.value = None => layers[call.index] = ~ call.pre[call.index]
        /\ \A i \in LayerRange \ {call.index} : layers[i] = call.pre[i]

\* C8: getPhobosConfigPath returns the configured folder whenever it is not
\* the empty string, falls back to getConfigPath() exactly when it is empty,
\* and leaves the preference as it was.
C8_ConfigPathFallback ==
    call.op = "getPhobosConfigPath" =>
        /\ call.pre # EmptyString =>
              call.res.ret = call.pre /\ ~ call.res.calledGetConfigPath
        /\ call.pre = EmptyString =>
              call.res.ret = getConfigPath /\ call.res.calledGetConfigPath
        /\ configfolder = call.pre

C8_Witness ==
    /\ call.op = "getPhobosConfigPath"
    /\ call.pre = EmptyString
    /\ call.res.ret = getConfigPath

ElemsOf(arg) == IF arg.kind = "list" THEN { arg.val[k] : k \in 1..Len(arg.val) }
                ELSE {arg.val}

\* C9: for a list of layer indices (0..19, repeats allowed) defLayers returns
\* exactly 20 booleans, element i True iff i is in the list; a bare index gives
\* what the one-element list gives; the argument is not modified.
C9_DefLayersEncodes ==
    (call.op = "defLayers" /\ ElemsOf(call.arg) \subseteq LayerRange) =>
        /\ call.ret.raised = None
        /\ DOMAIN call.ret.value = 0 .. 19
        /\ \A i \in 0 .. 19 : call.ret.value[i] \in BOOLEAN
        /\ \A i \in 0 .. 19 : call.ret.value[i] <=> i \in ElemsOf(call.arg)
        /\ call.arg.kind = "int" =>
              call.ret = defLayers([kind |-> "list", val |-> <<call.arg.val>>])
        /\ call.argAfter = call.arg

C9_Witness ==
    /\ call.op = "defLayers"
    /\ call.arg = [kind |-> "list", val |-> <<19, 19>>]
    /\ call.ret.raised = None
    /\ call.ret.value[19]

\* what a script can observe of the text buffers
TextView(ts) == { [name |-> t.name, lines |-> t.lines, tag |-> t.tag] : t \in ts }

\* C2: after updateTextFile(name, content) exactly one buffer is called name,
\* readTextFile(name) returns content, every buffer of another name is as it
\* was, and a second identical call leaves the same buffers.
C2_UpdateTextFile ==
    call.op = "updateTextFile" =>
        /\ Cardinality({ t \in texts : t.name = call.name }) = 1
        /\ readTextFileResult(texts, call.name).ret = call.contents
        /\ readTextFileResult(texts, call.name).log = << >>
        /\ \A p \in call.pre : p.name # call.name => p \in texts
        /\ \A t \in texts : t.name # call.name => t \in call.pre
        /\ \A ts \in updateTextFileTexts(texts, call.name, call.contents) :
              TextView(ts) = TextView(texts)

C2_Witness ==
    /\ call.op = "updateTextFile"
    /\ \E p \in call.pre : p.name = call.name /\ joinLines(p.lines) # call.contents
    /\ \E p \in call.pre : p.name # call.name
    /\ call.contents = <<NEWLINE>>

\* C3: readTextFile(name) raises nothing; with no buffer of that name it logs
\* one ERROR and returns the empty string; with one it returns the lines
\* joined by newline (so that splitting at the newlines gives the lines back)
\* and logs nothing; the buffers are left as they were.
C3_ReadTextFile ==
    call.op = "readTextFile" =>
        /\ call.res.raised = None
        /\ call.name \notin NamesOf(call.pre) =>
              call.res.log = <<"ERROR">> /\ call.res.ret = << >>
        /\ \A t \in call.pre : t.name = call.name =>
              /\ textWrite(<< << >> >>, call.res.ret, 1) = t.lines
              /\ Len(call.res.ret) + 1 =
                    Len(t.lines) + Cardinality({ k \in 1 .. Len(call.res.ret) :
                                                    call.res.ret[k] # NEWLINE })
              /\ call.res.log = << >>
        /\ texts = call.pre

C3_Witness ==
    /\ call.op = "readTextFile"
    /\ call.name \notin NamesOf(call.pre)
    /\ call.pre # {}
    /\ call.res.log = <<"ERROR">>

\* C5: createNewTextfile(name, contents) adds exactly one buffer, the added
\* buffer holds contents, every buffer that existed before keeps its content,
\* and every tag is False.
C5_CreateNewTextfile ==
    call.op = "createNewTextfile" =>
        LET preIds == { p.id : p \in call.pre }
            added  == { t \in texts : t.id \notin preIds }
        IN  /\ Cardinality(texts) = Cardinality(call.pre) + 1
            /\ Cardinality(added) = 1
            /\ \A t \in added : joinLines(t.lines) = call.contents
            /\ \A p \in call.pre : \E t \in texts : t.id = p.id /\ t.lines = p.lines
            /\ \A t \in texts : ~ t.tag

\* C4: the object createPrimitive returns, for any ptype, was not among the
\* objects before the call, it is the one named pname, and exactly one object
\* is added.
C4_CreatePrimitiveReturnsNew ==
    call.op = "createPrimitive" =>
        /\ call.raised = None
        /\ call.ret # NoObject
        /\ call.ret \cap { p.id : p \in call.pre } = {}
        /\ \E o \in objects : o.id \in call.ret /\ o.name[1] = call.pname[1]
        /\ Cardinality(objects) = Cardinality(call.pre) + 1

\* C6: after cleanScene the blend file holds no objects, meshes, materials or
\* lamps, whatever it held before.
C6_CleanSceneEmpties ==
    call.op = "cleanScene" =>
        objects = {} /\ meshes = {} /\ materials = {} /\ lamps = {}

HideFlags(obs) == { [id |-> o.id, hide |-> o.hide, hide_render |-> o.hide_render] : o \in obs }

\* C7 as stated: while the render runs every object not in the list is hidden
\* (hide and hide_render), and once createPreview has returned every object is
\* shown, as it was before the call.
C7_PreviewResetsVisibility ==
    call.op = "createPreview" =>
        /\ pc = "render" =>
              \A o \in objects : o.id \notin call.objs => o.hide /\ o.hide_render
        /\ pc = "idle" =>
              /\ \A o \in objects : ~ o.hide /\ ~ o.hide_render
              /\ HideFlags(objects) = HideFlags(call.pre)

\* C7 as amended: while the render runs every object that was there before the
\* call and is not in the list is hidden (the camera and the sun the
\* non-opengl path adds are shown), and once createPreview has returned the
\* objects are those from before the call, every one with hide and hide_render
\* False, whether or not it was hidden before.
C7_PreviewShowsAll ==
    call.op = "createPreview" =>
        /\ pc = "render" =>
              /\ \A p \in call.pre : \E o \in objects : o.id = p.id
              /\ \A o \in objects :
                    (o.id \in { p.id : p \in call.pre } /\ o.id \notin call.objs)
                        => o.hide /\ o.hide_render
              /\ \A o \in objects :
                    o.id \notin { p.id : p \in call.pre } => o.id \in call.cam \cup call.light
        /\ pc = "idle" =>
              /\ { o.id : o \in objects } = { p.id : p \in call.pre }
              /\ \A o \in objects : ~ o.hide /\ ~ o.hide_render

C7_Witness ==
    /\ call.op = "createPreview"
    /\ pc = "idle"
    /\ ~ call.opengl
    /\ \E p \in call.pre : p.id \notin call.objs /\ p.hide /\ p.hide_render
    /\ \E p \in call.pre : p.id \in call.objs
    /\ \A o \in objects : ~ o.hide

====
